---- MODULE Spec2Model ----
(***************************************************************************)
(* Query builders of python/lancedb/query.py: the hybrid query builder,   *)
(* its two sub-builders and thread-pool dispatch, score normalisation,    *)
(* rank conversion and the linear-combination merge of the two result     *)
(* tables.                                                                 *)
(*                                                                         *)
(* Score columns are float32.  A raw score is counted in units of         *)
(* 1/ScoreUnit (so that the tolerances of np.isclose are whole numbers);  *)
(* a computed value is an exact fraction <<n, d>> in lowest terms with    *)
(* d >= 0, where d = 0 encodes the IEEE specials: <<0,0>> is NaN,         *)
(* <<1,0>> is +inf and <<-1,0>> is -inf.  Rounding to float32 is not      *)
(* modelled.                                                               *)
(***************************************************************************)
EXTENDS Integers, Sequences, FiniteSets, TLC

VARIABLES
    table,      \* the table a builder is bound to: its index and registry state
    builder,    \* the query builder object (NoBuilder before construction)
    pc,         \* position of the caller / of the hybrid orchestrator
    futs,       \* the two futures of the hybrid thread pool
    out,        \* outcome of the running or last operation
    fin,        \* input of a function applied on its own
    fout        \* result of a function applied on its own

vars == <<table, builder, pc, futs, out, fin, fout>>

(***************************************************************************)
(* Bounds of the model.                                                    *)
(***************************************************************************)
MaxRowId == 3
MaxHits == 2
MaxNormRows == 3

(***************************************************************************)
(* Float arithmetic.                                                       *)
(***************************************************************************)
ScoreUnit == 2 * 10^8
\* np.isclose defaults: atol = 1e-8, rtol = 1e-5
AtolUnits == ScoreUnit \div 10^8
RtolInv == 10^5

Abs(x) == IF x < 0 THEN -x ELSE x
Sgn(x) == IF x < 0 THEN -1 ELSE IF x > 0 THEN 1 ELSE 0

RECURSIVE GCD(_, _)
GCD(a, b) == IF b = 0 THEN a ELSE GCD(b, a % b)

Frac(n, d) ==
    IF d = 0 THEN <<Sgn(n), 0>>
    ELSE LET g == GCD(Abs(n), Abs(d))
         IN  <<(Sgn(d) * n) \div g, Abs(d) \div g>>

NaN == <<0, 0>>
Zero == <<0, 1>>
One == <<1, 1>>
IsNaN(x) == x = NaN
IsInf(x) == x[2] = 0 /\ x[1] # 0
IsFinite(x) == x[2] # 0

FNeg(x) == <<-x[1], x[2]>>

FAdd(x, y) ==
    IF IsNaN(x) \/ IsNaN(y) THEN NaN
    ELSE IF IsInf(x) /\ IsInf(y) THEN (IF x = y THEN x ELSE NaN)
    ELSE IF IsInf(x) THEN x
    ELSE IF IsInf(y) THEN y
    ELSE Frac(x[1] * y[2] + y[1] * x[2], x[2] * y[2])

FSub(x, y) == FAdd(x, FNeg(y))

FMul(x, y) ==
    IF IsNaN(x) \/ IsNaN(y) THEN NaN
    ELSE IF IsInf(x) \/ IsInf(y)
         THEN <<Sgn(x[1]) * Sgn(y[1]), 0>>
    ELSE Frac(x[1] * y[1], x[2] * y[2])

\* x < y on non-NaN values
FLess(x, y) ==
    IF IsInf(x) /\ IsInf(y) THEN x[1] < y[1]
    ELSE x[1] * y[2] < y[1] * x[2]

FLeq(x, y) == x = y \/ FLess(x, y)

\* np.isclose(a, b) on raw scores: |a - b| <= atol + rtol * |b|
IsClose(a, b) == Abs(a - b) <= AtolUnits + Abs(b) \div RtolInv

(***************************************************************************)
(* Result tables: the set of column names and the rows in order.  A row   *)
(* of a single-modal result is its row id and the value of its score      *)
(* column (_distance or score).                                            *)
(***************************************************************************)
Table(cols, rows) == [cols |-> cols, rows |-> rows]

Raw(s) == <<s, 1>>
RowIds == 1 .. MaxRowId

RowIdsOf(t) == {t.rows[i].rowid : i \in DOMAIN t.rows}
ValOf(t, r) == t.rows[CHOOSE i \in DOMAIN t.rows : t.rows[i].rowid = r].val
PosOf(t, r) == CHOOSE i \in DOMAIN t.rows : t.rows[i].rowid = r
Vals(t) == {t.rows[i].val : i \in DOMAIN t.rows}

\* pyarrow Table.slice(length=n) from offset 0: the first n rows, every row when
\* n is None (<<>>), no row when n <= 0
Slice(rows, length) ==
    IF Len(length) = 0 THEN rows
    ELSE IF length[1] <= 0 THEN <<>>
    ELSE SubSeq(rows, 1, IF length[1] < Len(rows) THEN length[1] ELSE Len(rows))

RawMax(t) == CHOOSE m \in {v[1] : v \in Vals(t)} : \A v \in Vals(t) : v[1] <= m
RawMin(t) == CHOOSE m \in {v[1] : v \in Vals(t)} : \A v \in Vals(t) : m <= v[1]

(***************************************************************************)
(* LanceHybridQueryBuilder._normalize_scores (invert is never passed).     *)
(***************************************************************************)
NormRangeAlwaysSpan(max, min) == max - min
NormRangeUnitWhenClose(max, min) == IF IsClose(max, min) THEN ScoreUnit ELSE max - min
NormRange(max, min) == IF IsClose(max, min) THEN max ELSE max - min

NormalizeScores(results) ==
    IF Len(results.rows) = 0 THEN results
    ELSE LET max == RawMax(results)
             min == RawMin(results)
             rng == NormRange(max, min)
         IN  [results EXCEPT !.rows =
                 [i \in DOMAIN results.rows |->
                     [results.rows[i] EXCEPT !.val = Frac(@[1] - min, rng)]]]

(***************************************************************************)
(* LanceHybridQueryBuilder._rank.  np.argsort sorts with an unstable       *)
(* algorithm by default, so every permutation that sorts the scores is a   *)
(* possible sort_indices.                                                  *)
(***************************************************************************)
Perms(n) == {p \in [1 .. n -> 1 .. n] : \A i, j \in 1 .. n : i # j => p[i] # p[j]}

ArgSorts(t, ascending) ==
    LET n == Len(t.rows)
        up == {p \in Perms(n) :
                 \A i \in 1 .. n - 1 : t.rows[p[i]].val[1] <= t.rows[p[i + 1]].val[1]}
    IN  IF ascending THEN up
        ELSE {[i \in 1 .. n |-> p[n + 1 - i]] : p \in up}

RankWith(results, sort_indices) ==
    [results EXCEPT !.rows =
        [i \in DOMAIN results.rows |->
            [results.rows[i] EXCEPT !.val =
                Raw(ScoreUnit * (CHOOSE k \in DOMAIN results.rows : sort_indices[k] = i))]]]

Rank(results, ascending) ==
    IF Len(results.rows) = 0 THEN {results}
    ELSE {RankWith(results, p) : p \in ArgSorts(results, ascending)}

(***************************************************************************)
(* The built-in linear-combination reranker (rerankers/linear_combination) *)
(* as the specification describes it: a full outer join on row id, the     *)
(* missing side filled on the distance scale, the merged score             *)
(*   weight * (1 - vector_distance) + (1 - weight) * fts_score,            *)
(* and a stable descending sort (vector order first, then fts order).      *)
(* Sorting places NaN scores after every number.                           *)
(***************************************************************************)
LinearCombinationReranker(weight, fill) ==
    [kind |-> "linear", weight |-> weight, fill |-> fill]

\* row ids in join order: the vector rows, then the rows only fts has
JoinOrder(v, f) ==
    [i \in DOMAIN v.rows |-> v.rows[i].rowid] \o
    SelectSeq([i \in DOMAIN f.rows |-> f.rows[i].rowid], LAMBDA r : r \notin RowIdsOf(v))

CombineScore(rk, dist, score) ==
    FAdd(FMul(rk.weight, FSub(One, dist)), FMul(FSub(One, rk.weight), score))

MergedRow(rk, v, f, r) ==
    LET dist == IF r \in RowIdsOf(v) THEN ValOf(v, r) ELSE rk.fill
        score == IF r \in RowIdsOf(f) THEN ValOf(f, r) ELSE FSub(One, rk.fill)
    IN  [rowid |-> r, dist |-> dist, score |-> score,
         rel |-> CombineScore(rk, dist, score)]

\* a must be placed before b in a descending sort
RelBefore(a, b) == ~IsNaN(a.rel) /\ (IsNaN(b.rel) \/ FLess(b.rel, a.rel))

InsertDesc(sorted, x) ==
    LET ahead == {i \in DOMAIN sorted : RelBefore(x, sorted[i])}
        at == IF ahead = {} THEN Len(sorted) + 1
              ELSE CHOOSE i \in ahead : \A j \in ahead : i <= j
    IN  SubSeq(sorted, 1, at - 1) \o <<x>> \o SubSeq(sorted, at, Len(sorted))

RECURSIVE SortDesc(_)
SortDesc(rows) ==
    IF rows = <<>> THEN <<>>
    ELSE InsertDesc(SortDesc(SubSeq(rows, 1, Len(rows) - 1)), rows[Len(rows)])

MergeResults(rk, v, f) ==
    LET order == JoinOrder(v, f)
    IN  Table(v.cols \cup f.cols \cup {"_relevance_score"},
              SortDesc([i \in DOMAIN order |-> MergedRow(rk, v, f, order[i])]))

(***************************************************************************)
(* The merge phases of LanceHybridQueryBuilder.to_arrow, as operators.     *)
(***************************************************************************)
\* convert to ranks first if needed
RankStage(norm, vector_results, fts_results) ==
    IF norm = "rank"
    THEN {<<v, f>> : v \in Rank(vector_results, TRUE), f \in Rank(fts_results, TRUE)}
    ELSE {<<vector_results, fts_results>>}

NormStageSkipped(pair) == pair
NormStageEmptyLosesSchema(pair) ==
    <<IF Len(pair[1].rows) = 0 THEN Table({}, <<>>) ELSE NormalizeScores(pair[1]),
      IF Len(pair[2].rows) = 0 THEN Table({}, <<>>) ELSE NormalizeScores(pair[2])>>
NormStage(pair) == <<NormalizeScores(pair[1]), NormalizeScores(pair[2])>>

\* self._reranker.rerank_hybrid(self._fts_query._query, vector_results, fts_results)
NotATable == [kind |-> "nontable"]
CallRerankHybridVectorTwice(reranker, vector_results, fts_results) ==
    MergeResults(reranker, vector_results, vector_results)
CallRerankHybridSwapped(reranker, vector_results, fts_results) ==
    MergeResults(reranker, fts_results, vector_results)
CallRerankHybrid(reranker, vector_results, fts_results) ==
    IF reranker.kind = "linear" THEN MergeResults(reranker, vector_results, fts_results)
    ELSE NotATable

\* isinstance(results, pa.Table)
IsTable(x) == "rows" \in DOMAIN x

(***************************************************************************)
(* Inputs of the functions applied on their own.                           *)
(***************************************************************************)
Idle == "idle"
NoValue == "NoValue"
NoBuilder == [kind |-> "none"]
NoOutcome == [kind |-> "none", op |-> "none"]
NoFuture == [st |-> "none"]

\* sequences of distinct row ids, at most n long
IdSeqs(n) ==
    UNION {{s \in [1 .. k -> RowIds] : \A i, j \in 1 .. k : i # j => s[i] # s[j]} :
             k \in 0 .. n}

Ascending == "ascending"
Descending == "descending"
AnyOrder == "any"
InOrder(ord, a, b) ==
    IF ord = Ascending THEN a <= b ELSE IF ord = Descending THEN a >= b ELSE TRUE

\* tables of at most n rows over the raw scores S, in the order ord demands
Tables(cols, S, n, ord) ==
    UNION {{Table(cols, [i \in DOMAIN ids |-> [rowid |-> ids[i], val |-> Raw(sc[i])]]) :
              sc \in {x \in [DOMAIN ids -> S] :
                        \A i \in 1 .. Len(ids) - 1 : InOrder(ord, x[i], x[i + 1])}} :
             ids \in IdSeqs(n)}


VecCols(with_row_id) == {"vector", "_distance"} \cup (IF with_row_id THEN {"_rowid"} ELSE {})
FtsCols(with_row_id) == {"text", "score"} \cup (IF with_row_id THEN {"_rowid"} ELSE {})

\* raw scores of the normaliser's inputs: equal, close and distant values,
\* zero, a negative value, and a pair that is close only relatively
NormScores == {-1, 0, 3, 4, 40, 200000, 200003}
NormTables ==
    UNION {{Table({"score"}, [i \in 1 .. k |-> [rowid |-> i, val |-> Raw(sc[i])]]) :
              sc \in [1 .. k -> NormScores]} : k \in 0 .. MaxNormRows}

\* raw scores of the two sub-query results: zero, a close pair, a distant pair
MergeScores == {0, 3, 4}
\* the vector engine returns the nearest rows first, the index the best scores first
VecResults(n) == Tables(VecCols(TRUE), MergeScores, n, Ascending)
FtsResults(n) == Tables(FtsCols(TRUE), MergeScores, n, Descending)

DefaultReranker == LinearCombinationReranker(<<7, 10>>, One)
MergeRerankers ==
    {DefaultReranker, LinearCombinationReranker(One, One),
     LinearCombinationReranker(Zero, One), LinearCombinationReranker(<<7, 10>>, <<1, 2>>)}

(***************************************************************************)
(* Variables a specification does not use stay at these values.            *)
(***************************************************************************)
NoTable == [fts_index |-> NoValue]
NoFuts == [fts |-> NoFuture, vector |-> NoFuture]
BuilderUnused ==
    /\ table = NoTable /\ builder = NoBuilder /\ pc = Idle
    /\ futs = NoFuts /\ out = NoOutcome
BuilderUnchanged == UNCHANGED <<table, builder, pc, futs, out>>

(***************************************************************************)
(* _normalize_scores and _rank applied to a table.                         *)
(***************************************************************************)
InitNorm ==
    /\ BuilderUnused
    /\ fin \in [fn : {"_normalize_scores", "_rank"}, results : NormTables]
    /\ fout = [stage |-> "called"]

ApplyNormalizeScores ==
    /\ fin.fn = "_normalize_scores" /\ fout.stage = "called"
    /\ fout' = [stage |-> "returned", results |-> NormalizeScores(fin.results)]
    /\ UNCHANGED fin /\ BuilderUnchanged

ApplyRank ==
    /\ fin.fn = "_rank" /\ fout.stage = "called"
    /\ \E ranked \in Rank(fin.results, TRUE) :
          fout' = [stage |-> "returned", results |-> ranked]
    /\ UNCHANGED fin /\ BuilderUnchanged

NextNorm == ApplyNormalizeScores \/ ApplyRank
SpecNorm == InitNorm /\ [][NextNorm]_vars

(***************************************************************************)
(* The merge phases of to_arrow applied to a pair of sub-query results.    *)
(***************************************************************************)
InitMerge ==
    /\ BuilderUnused
    /\ fin \in [vector_results : VecResults(MaxHits), fts_results : FtsResults(MaxHits)]
    /\ fout = [stage |-> "results"]

MergeNormalize ==
    /\ fout.stage = "results"
    /\ \E ranked \in RankStage("score", fin.vector_results, fin.fts_results) :
          fout' = [stage |-> "normalized",
                   vector_results |-> NormStage(ranked)[1],
                   fts_results |-> NormStage(ranked)[2]]
    /\ UNCHANGED fin /\ BuilderUnchanged

MergeRerank ==
    /\ fout.stage = "normalized"
    /\ \E reranker \in MergeRerankers :
          fout' = [stage |-> "reranked",
                   vector_results |-> fout.vector_results,
                   fts_results |-> fout.fts_results,
                   reranker |-> reranker,
                   results |-> CallRerankHybrid(reranker, fout.vector_results,
                                                fout.fts_results)]
    /\ UNCHANGED fin /\ BuilderUnchanged

NextMerge == MergeNormalize \/ MergeRerank
SpecMerge == InitMerge /\ [][NextMerge]_vars

(***************************************************************************)
(* Builders.  A limit is <<>> for None and <<n>> for the integer n.       *)
(***************************************************************************)
None == <<>>
Some(n) == <<n>>
IsNone(x) == Len(x) = 0

DefaultLimit == 10
NoReranker == [kind |-> "None"]

\* LanceQueryBuilder.__init__
BaseBuilder(kind) ==
    [kind |-> kind, limit |-> Some(DefaultLimit), with_row_id |-> FALSE]

\* the shapes of a query value
QueryShapes == {"None", "str", "list", "pa_array", "tuple_vec_str", "tuple_pa_str",
                "tuple_1", "tuple_str_str", "tuple_vec_vec", "image"}
QueryTypes == {"auto", "vector", "fts", "hybrid", "text"}
IsStr(q) == q = "str"
IsListOrArray(q) == q \in {"list", "ndarray"}
IsTuple(q) ==
    q \in {"tuple_vec_str", "tuple_pa_str", "tuple_1", "tuple_str_str", "tuple_vec_vec"}
\* isinstance(q, (list, np.ndarray, pa.Array, pa.ChunkedArray))
IsVectorLike(q) == q \in {"list", "ndarray", "pa_array"}

\* fts_created: the full-text sub-builder of a hybrid builder had been constructed
Raised(err, embedded) ==
    [status |-> "raise", err |-> err, embedded |-> embedded, fts_created |-> FALSE]

\* conf.function.compute_query_embeddings_with_retry(query)[0]
Embed(embed_ok) ==
    IF embed_ok THEN [status |-> "ok", query |-> "ndarray", embedded |-> TRUE]
    ELSE Raised("UpstreamFailure", TRUE)

\* LanceQueryBuilder._query_to_vector
QueryToVectorAlwaysLooksUp(conf, query, embed_ok) ==
    IF conf # "None" THEN Embed(embed_ok) ELSE Raised("ValueError", FALSE)
QueryToVector(conf, query, embed_ok) ==
    IF IsListOrArray(query) THEN [status |-> "ok", query |-> query, embedded |-> FALSE]
    ELSE IF conf # "None" THEN Embed(embed_ok)
    ELSE Raised("ValueError", FALSE)

\* LanceQueryBuilder._resolve_query
ResolveQuery(conf, query, query_type, embed_ok) ==
    IF query_type = "fts"
    THEN IF ~IsStr(query) THEN Raised("TypeError", FALSE)
         ELSE [status |-> "ok", query |-> query, query_type |-> "fts", embedded |-> FALSE]
    ELSE IF query_type = "vector"
    THEN LET v == QueryToVector(conf, query, embed_ok)
         IN  IF v.status = "ok"
             THEN [status |-> "ok", query |-> v.query, query_type |-> "vector",
                   embedded |-> v.embedded]
             ELSE v
    ELSE IF query_type = "auto"
    THEN IF IsListOrArray(query)
         THEN [status |-> "ok", query |-> query, query_type |-> "vector", embedded |-> FALSE]
         ELSE IF IsTuple(query)
         THEN [status |-> "ok", query |-> query, query_type |-> "hybrid", embedded |-> FALSE]
         ELSE IF conf # "None"
         THEN LET v == Embed(embed_ok)
              IN  IF v.status = "ok"
                  THEN [status |-> "ok", query |-> v.query, query_type |-> "vector",
                        embedded |-> TRUE]
                  ELSE v
         ELSE [status |-> "ok", query |-> query, query_type |-> "fts", embedded |-> FALSE]
    ELSE Raised("ValueError", FALSE)

\* Table._get_fts_index_path() is None
FtsIndexPathIsNone(tb) == tb.fts_index = "nopath"

\* LanceHybridQueryBuilder._validate_fts_index: TRUE when it raises
ValidateFtsIndexRaises(tb) == FtsIndexPathIsNone(tb)

\* LanceHybridQueryBuilder._validate_query
ValidateQueryAnyPair(query) ==
    IF IsStr(query) THEN [status |-> "ok", vector_query |-> "str", fts_query |-> "str"]
    ELSE IF IsTuple(query) /\ query # "tuple_1"
    THEN [status |-> "ok", fts_query |-> "str",
          vector_query |-> IF query = "tuple_pa_str" THEN "pa_array" ELSE "list"]
    ELSE Raised("ValueError", FALSE)
ValidateQuery(query) ==
    IF IsStr(query) THEN [status |-> "ok", vector_query |-> "str", fts_query |-> "str"]
    ELSE IF IsTuple(query)
    THEN IF query = "tuple_1" THEN Raised("ValueError", FALSE)
         ELSE IF query = "tuple_str_str" THEN Raised("ValueError", FALSE)
         ELSE IF query = "tuple_vec_vec" THEN Raised("ValueError", FALSE)
         ELSE [status |-> "ok", fts_query |-> "str",
               vector_query |-> IF query = "tuple_pa_str" THEN "pa_array" ELSE "list"]
    ELSE Raised("ValueError", FALSE)

\* LanceHybridQueryBuilder.__init__
HybridInit(tb, conf, query, embed_ok) ==
    IF ValidateFtsIndexRaises(tb) THEN Raised("ValueError", FALSE)
    ELSE LET q == ValidateQuery(query)
         IN  IF q.status # "ok" THEN q
             ELSE LET v == QueryToVector(conf, q.vector_query, embed_ok)
                  IN  IF v.status # "ok" THEN [v EXCEPT !.fts_created = TRUE]
                      ELSE [status |-> "ok", embedded |-> v.embedded,
                            builder |->
                              [kind |-> "hybrid", limit |-> Some(DefaultLimit),
                               with_row_id |-> FALSE,
                               fts_query |-> BaseBuilder("fts"),
                               vector_query |-> BaseBuilder("vector"),
                               norm |-> "score", reranker |-> DefaultReranker]]

\* LanceQueryBuilder.create
CreateBuilder(tb, conf, query, query_type, embed_ok) ==
    IF query = "None"
    THEN [status |-> "ok", embedded |-> FALSE, builder |-> BaseBuilder("empty")]
    ELSE IF query_type = "hybrid" THEN HybridInit(tb, conf, query, embed_ok)
    ELSE LET r == ResolveQuery(conf, query, query_type, embed_ok)
         IN  IF r.status # "ok" THEN r
             ELSE IF r.query_type = "hybrid"
             THEN LET h == HybridInit(tb, conf, r.query, embed_ok)
                  IN  [h EXCEPT !.embedded = @ \/ r.embedded]
             ELSE IF IsStr(r.query)
             THEN [status |-> "ok", embedded |-> r.embedded, builder |-> BaseBuilder("fts")]
             ELSE IF IsListOrArray(r.query)
             THEN [status |-> "ok", embedded |-> r.embedded,
                   builder |-> BaseBuilder("vector")]
             ELSE Raised("TypeError", r.embedded)

(***************************************************************************)
(* Builder methods.                                                        *)
(***************************************************************************)
\* LanceQueryBuilder.limit
BaseLimit(b, limit) ==
    [b EXCEPT !.limit = IF IsNone(limit) \/ limit[1] <= 0 THEN None ELSE limit]

\* LanceHybridQueryBuilder.limit
HybridLimit(b, limit) ==
    [b EXCEPT !.vector_query = BaseLimit(@, limit),
              !.fts_query = BaseLimit(@, limit),
              !.limit = limit]

\* LanceQueryBuilder.with_row_id
SetWithRowId(b, with_row_id) == [b EXCEPT !.with_row_id = with_row_id]

\* rerankers a caller passes to rerank(): Reranker instances (the built-in one and
\* a custom one whose rerank_hybrid returns no table), None, and a non-Reranker
CustomReranker == [kind |-> "custom"]
NotAReranker == [kind |-> "object"]
RerankerArgs == {DefaultReranker, CustomReranker, NoReranker, NotAReranker}
NormalizeArgs == {"score", "rank", "zscore"}
IsRerankerInstance(r) == r.kind \in {"linear", "custom"}
Truthy(r) == r.kind # "None"

\* LanceHybridQueryBuilder.rerank: the checks that raise ValueError
HybridRerankRaisesOnRerankerOnly(normalize, reranker) ==
    Truthy(reranker) /\ ~IsRerankerInstance(reranker)
HybridRerankRaises(normalize, reranker) ==
    \/ normalize \notin {"rank", "score"}
    \/ Truthy(reranker) /\ ~IsRerankerInstance(reranker)

HybridRerank(b, normalize, reranker) ==
    [b EXCEPT !.norm = normalize, !.reranker = reranker]

(***************************************************************************)
(* The single-modal executors.  The engines and the index are outside the  *)
(* builders: they return any ranked list of matches, cut to the limit, or  *)
(* fail.                                                                   *)
(***************************************************************************)
\* every match carries the same raw score here: what the scores do to the merged
\* order is followed on MergeScores and NormScores
SpecScores == {3}
Failed(err) == [st |-> "failed", err |-> err]
Done(tbl, matched) == [st |-> "ok", tbl |-> tbl, matched |-> matched]

\* the first k matches; all of them without a limit
TopK(rows, limit) == IF IsNone(limit) THEN rows ELSE Slice(rows, limit)

\* LanceVectorQueryBuilder.to_arrow: Query.k is a required int
QueryKInvalid(b) == IsNone(b.limit)

VectorToArrow(b) ==
    IF QueryKInvalid(b) THEN {Failed("ValidationError")}
    ELSE {Failed("UpstreamFailure")} \cup
         {Done(Table(VecCols(b.with_row_id), TopK(m.rows, b.limit)), Len(m.rows)) :
            m \in Tables({}, SpecScores, MaxHits, Ascending)}

\* LanceFtsQueryBuilder.to_arrow
FtsTable(b, hits) ==
    IF Len(hits) = 0 THEN Table({"score"}, <<>>)
    ELSE Table(FtsCols(b.with_row_id), hits)

\* (a missing index taken as an index without matches)
FtsToArrowAbsentIsEmpty(tb, b) ==
    {Failed("ImportError")} \cup
    (IF tb.fts_index # "built" THEN {Done(Table({"score"}, <<>>), 0)}
     ELSE {Failed("UpstreamFailure")} \cup
          {Done(FtsTable(b, TopK(m.rows, b.limit)), Len(m.rows)) :
             m \in Tables({}, SpecScores, MaxHits, Descending)})
FtsToArrow(tb, b) ==
    {Failed("ImportError")} \cup
    (IF tb.fts_index = "nopath" THEN {Failed("TypeError")}
     ELSE IF tb.fts_index = "absent" THEN {Failed("FileNotFoundError")}
     ELSE {Failed("UpstreamFailure")} \cup
          {Done(FtsTable(b, TopK(m.rows, b.limit)), Len(m.rows)) :
             m \in Tables({}, SpecScores, MaxHits, Descending)})

\* LanceEmptyQueryBuilder.to_arrow
EmptyToArrow(b) ==
    {Failed("UpstreamFailure")} \cup
    {Done(Table({"vector", "text"}, TopK(m.rows, b.limit)), Len(m.rows)) :
       m \in Tables({}, {0}, MaxHits, AnyOrder)}

(***************************************************************************)
(* LanceHybridQueryBuilder.to_arrow after the two futures have been        *)
(* joined: normalise, rerank, type check, limit, drop the row id.          *)
(***************************************************************************)
Raise(err, rerank_called) ==
    [kind |-> "raise", op |-> "to_arrow", err |-> err, rerank_called |-> rerank_called]

\* results.slice(length=self._limit)
ApplyLimitOffByOne(b, rows) == Slice(rows, Some(b.limit[1] + 1))
ApplyLimit(b, rows) == Slice(rows, b.limit)

\* if not self._with_row_id: results = results.drop(["_rowid"])
DropsRowIdAlways(b) == TRUE
DropsRowId(b) == ~b.with_row_id

Finalize(b, results, normalized) ==
    LET rows == ApplyLimit(b, results.rows)
        returned(cols) ==
            [kind |-> "table", op |-> "to_arrow", cols |-> cols, rows |-> rows,
             rerank_called |-> TRUE,
             results |-> results, vector_results |-> normalized[1],
             fts_results |-> normalized[2]]
    IN  IF DropsRowId(b)
        THEN IF "_rowid" \in results.cols THEN returned(results.cols \ {"_rowid"})
             ELSE Raise("KeyError", TRUE)
        ELSE returned(results.cols)

HybridFinishNoTypeCheck(b, ranked) ==
    LET normalized == NormStage(ranked)
    IN  IF b.reranker.kind = "None" THEN Raise("AttributeError", FALSE)
        ELSE LET results == CallRerankHybrid(b.reranker, normalized[1], normalized[2])
             IN  IF ~IsTable(results) THEN Raise("AttributeError", TRUE)
                 ELSE Finalize(b, results, normalized)
HybridFinish(b, ranked) ==
    LET normalized == NormStage(ranked)
    IN  IF b.reranker.kind = "None" THEN Raise("AttributeError", FALSE)
        ELSE LET results == CallRerankHybrid(b.reranker, normalized[1], normalized[2])
             IN  IF ~IsTable(results) THEN Raise("TypeError", TRUE)
                 ELSE Finalize(b, results, normalized)

(***************************************************************************)
(* The builder's life: construction, builder calls, execution.             *)
(***************************************************************************)
FnUnused == fin = NoValue /\ fout = [stage |-> "unused"]
FnUnchanged == UNCHANGED <<fin, fout>>

LimitArgs == {None, Some(-1), Some(0), Some(1), Some(2)}

Init ==
    /\ table \in [fts_index : {"nopath", "absent", "built"}]
    /\ builder = NoBuilder
    /\ pc = "start"
    /\ futs = NoFuts
    /\ out = NoOutcome
    /\ FnUnused

\* LanceQueryBuilder.create(table, query, query_type, vector_column_name); conf is
\* table.embedding_functions.get(vector_column_name), embed_ok whether the
\* embedding function returns or raises
Create ==
    /\ pc = "start"
    /\ \E query \in QueryShapes, query_type \in QueryTypes,
          conf \in {"None", "conf"}, embed_ok \in BOOLEAN :
          LET r == CreateBuilder(table, conf, query, query_type, embed_ok)
              call == [query |-> query, query_type |-> query_type, conf |-> conf,
                       embed_ok |-> embed_ok]
          IN  IF r.status = "ok"
              THEN /\ builder' = r.builder
                   /\ out' = [kind |-> "created", op |-> "create", call |-> call,
                              embedded |-> r.embedded]
              ELSE /\ builder' = NoBuilder
                   /\ out' = [kind |-> "raise", op |-> "create", call |-> call,
                              err |-> r.err, embedded |-> r.embedded,
                              fts_created |-> r.fts_created]
    /\ pc' = "done"
    /\ UNCHANGED <<table, futs>> /\ FnUnchanged

\* builder.limit(limit)
Limit ==
    /\ pc = "idle"
    /\ \E limit \in LimitArgs :
          builder' = IF builder.kind = "hybrid" THEN HybridLimit(builder, limit)
                     ELSE BaseLimit(builder, limit)
    /\ UNCHANGED <<table, pc, futs, out>> /\ FnUnchanged

\* builder.with_row_id(with_row_id)
WithRowId ==
    /\ pc = "idle"
    /\ \E with_row_id \in BOOLEAN :
          builder' = SetWithRowId(builder, with_row_id)
    /\ UNCHANGED <<table, pc, futs, out>> /\ FnUnchanged

\* hybrid_builder.rerank(normalize, reranker)
Rerank ==
    /\ pc = "idle" /\ builder.kind = "hybrid"
    /\ \E normalize \in NormalizeArgs, reranker \in RerankerArgs :
          IF HybridRerankRaises(normalize, reranker)
          THEN /\ out' = [kind |-> "raise", op |-> "rerank", err |-> "ValueError",
                          call |-> [normalize |-> normalize, reranker |-> reranker]]
               /\ pc' = "done"
               /\ UNCHANGED builder
          ELSE /\ builder' = HybridRerank(builder, normalize, reranker)
               /\ UNCHANGED <<pc, out>>
    /\ UNCHANGED <<table, futs>> /\ FnUnchanged

\* to_arrow of the filter-only, vector and full-text builders
SingleToArrow(tb, b) ==
    IF b.kind = "vector" THEN VectorToArrow(b)
    ELSE IF b.kind = "fts" THEN FtsToArrow(tb, b)
    ELSE EmptyToArrow(b)

ToArrow ==
    /\ pc = "idle" /\ builder.kind \in {"empty", "vector", "fts"}
    /\ \E r \in SingleToArrow(table, builder) :
          out' = IF r.st = "ok"
                 THEN [kind |-> "table", op |-> "to_arrow", cols |-> r.tbl.cols,
                       rows |-> r.tbl.rows, matched |-> r.matched,
                       rerank_called |-> FALSE]
                 ELSE Raise(r.err, FALSE)
    /\ pc' = "done"
    /\ UNCHANGED <<table, builder, futs>> /\ FnUnchanged

(***************************************************************************)
(* LanceHybridQueryBuilder.to_arrow: the orchestrator thread and the two   *)
(* pool tasks.  A task may run as soon as it is submitted.                 *)
(***************************************************************************)
Pending == [st |-> "pending"]
Completed(r, b) ==
    IF r.st = "ok" THEN [st |-> "ok", tbl |-> r.tbl, with_row_id |-> b.with_row_id]
    ELSE [st |-> "failed", err |-> r.err, with_row_id |-> b.with_row_id]
IsComplete(f) == f.st \in {"ok", "failed"}

\* the sub-builder a submit hands to the pool: sub.with_row_id(True)
SubmittedFtsAsIs(b) == b
SubmittedFts(b) == [b EXCEPT !.fts_query = SetWithRowId(@, TRUE)]
SubmittedVector(b) == [b EXCEPT !.vector_query = SetWithRowId(@, TRUE)]

\* (the orchestrator waits for the full-text result before it submits the
\* vector task)
SubmitFtsThenBlock ==
    /\ pc = "idle" /\ builder.kind = "hybrid"
    /\ builder' = SubmittedFts(builder)
    /\ futs' = [futs EXCEPT !.fts = Pending]
    /\ pc' = "fts_result"
    /\ UNCHANGED <<table, out>> /\ FnUnchanged

\* fts_future = executor.submit(self._fts_query.with_row_id(True).to_arrow)
SubmitFts ==
    /\ pc = "idle" /\ builder.kind = "hybrid"
    /\ builder' = SubmittedFts(builder)
    /\ futs' = [futs EXCEPT !.fts = Pending]
    /\ pc' = "submit_vector"
    /\ UNCHANGED <<table, out>> /\ FnUnchanged

\* vector_future = executor.submit(self._vector_query.with_row_id(True).to_arrow)
SubmitVector ==
    /\ pc = "submit_vector"
    /\ builder' = SubmittedVector(builder)
    /\ futs' = [futs EXCEPT !.vector = Pending]
    /\ pc' = "fts_result"
    /\ UNCHANGED <<table, out>> /\ FnUnchanged

\* a pool thread runs the full-text sub-query
RunFts ==
    /\ futs.fts.st = "pending"
    /\ \E r \in FtsToArrow(table, builder.fts_query) :
          futs' = [futs EXCEPT !.fts = Completed(r, builder.fts_query)]
    /\ UNCHANGED <<table, builder, pc, out>> /\ FnUnchanged

\* a pool thread runs the vector sub-query
RunVector ==
    /\ futs.vector.st = "pending"
    /\ \E r \in VectorToArrow(builder.vector_query) :
          futs' = [futs EXCEPT !.vector = Completed(r, builder.vector_query)]
    /\ UNCHANGED <<table, builder, pc, out>> /\ FnUnchanged

\* what Future.result() does with a completed future
ResultRaises(f) == f.st = "failed"

\* (a failed full-text sub-query taken as an empty result)
FtsResultSwallowsFailure ==
    /\ pc = "fts_result" /\ IsComplete(futs.fts)
    /\ pc' = "vector_result"
    /\ futs' = IF ResultRaises(futs.fts)
               THEN [futs EXCEPT !.fts = [st |-> "failed", err |-> futs.fts.err,
                                          with_row_id |-> futs.fts.with_row_id,
                                          tbl |-> Table({"score"}, <<>>)]]
               ELSE futs
    /\ UNCHANGED <<table, builder, out>> /\ FnUnchanged

\* fts_results = fts_future.result()
FtsResult ==
    /\ pc = "fts_result" /\ IsComplete(futs.fts)
    /\ IF ResultRaises(futs.fts)
       THEN /\ pc' = "exit_raise"
            /\ out' = [kind |-> "raising", op |-> "to_arrow", err |-> futs.fts.err]
       ELSE /\ pc' = "vector_result"
            /\ UNCHANGED out
    /\ UNCHANGED <<table, builder, futs>> /\ FnUnchanged

\* vector_results = vector_future.result(); when it returns, both futures are
\* complete, the with block is left at once and the orchestrator alone runs the
\* rest of to_arrow, from the rank conversion to the return
VectorResult ==
    /\ pc = "vector_result" /\ IsComplete(futs.vector)
    /\ IF ResultRaises(futs.vector)
       THEN /\ pc' = "exit_raise"
            /\ out' = [kind |-> "raising", op |-> "to_arrow", err |-> futs.vector.err]
       ELSE /\ pc' = "done"
            /\ \E ranked \in RankStage(builder.norm, futs.vector.tbl, futs.fts.tbl) :
                  out' = HybridFinish(builder, ranked)
    /\ UNCHANGED <<table, builder, futs>> /\ FnUnchanged

\* leaving the with block on an exception: shutdown(wait=True), then re-raise
ExitRaise ==
    /\ pc = "exit_raise"
    /\ IsComplete(futs.fts) /\ IsComplete(futs.vector)
    /\ out' = Raise(out.err, FALSE)
    /\ pc' = "done"
    /\ UNCHANGED <<table, builder, futs>> /\ FnUnchanged

\* LanceQueryBuilder.to_pandas(flatten), on every builder kind: its first statement
\* is tbl = self.to_arrow(), the execution that has just ended here; flatten is
\* read after it
FlattenArgs == {"None", "True", "-1", "0", "1"}
FlattenIsInt(flatten) == flatten \in {"-1", "0", "1"}
FlattenRaises(flatten) == FlattenIsInt(flatten) /\ flatten \in {"-1", "0"}
ToPandasResult(arrow, flatten) ==
    IF arrow.kind = "raise"
    THEN [kind |-> "raise", op |-> "to_pandas", err |-> arrow.err,
          rerank_called |-> arrow.rerank_called, to_arrow |-> arrow]
    ELSE IF FlattenRaises(flatten)
    THEN [kind |-> "raise", op |-> "to_pandas", err |-> "ValueError",
          rerank_called |-> arrow.rerank_called, flatten |-> flatten,
          to_arrow |-> arrow]
    ELSE [kind |-> "frame", op |-> "to_pandas", cols |-> arrow.cols,
          rows |-> arrow.rows, rerank_called |-> arrow.rerank_called,
          to_arrow |-> arrow]

ToPandas ==
    /\ pc = "done" /\ out.op = "to_arrow"
    /\ \E flatten \in FlattenArgs : out' = ToPandasResult(out, flatten)
    /\ UNCHANGED <<table, builder, pc, futs>> /\ FnUnchanged

\* the caller takes the value or the exception
Return ==
    /\ pc = "done"
    /\ pc' = IF builder = NoBuilder THEN "start" ELSE "idle"
    /\ out' = NoOutcome
    /\ futs' = NoFuts
    /\ UNCHANGED <<table, builder>> /\ FnUnchanged

Next ==
    \/ Create \/ Limit \/ WithRowId \/ Rerank \/ ToArrow
    \/ SubmitFts \/ SubmitVector \/ RunFts \/ RunVector
    \/ FtsResult \/ VectorResult \/ ExitRaise \/ ToPandas \/ Return

Spec == Init /\ [][Next]_vars

(***************************************************************************)
(* Properties of the hybrid orchestration and of the builders.             *)
(***************************************************************************)
HybridDone == builder.kind = "hybrid" /\ pc = "done" /\ out.op = "to_arrow"
HybridReturned == HybridDone /\ out.kind = "table"
SomeFailed == futs.fts.st = "failed" \/ futs.vector.st = "failed"

\* C1: when the vector or the full-text sub-query raises, hybrid to_arrow raises
\* that failure (the full-text one when both fail) in every interleaving of the two
\* tasks; rerank_hybrid is not invoked and no table is returned.
C1_SubQueryFailurePropagates ==
    SomeFailed =>
        /\ out.kind # "table"
        /\ pc = "done" =>
              /\ out.kind = "raise"
              /\ ~out.rerank_called
              /\ out.err = IF futs.fts.st = "failed" THEN futs.fts.err
                           ELSE futs.vector.err

\* the vector sub-query failed after the full-text one had returned rows
C1_Witness ==
    /\ HybridDone /\ out.kind = "raise"
    /\ futs.fts.st = "ok" /\ Len(futs.fts.tbl.rows) > 0
    /\ futs.vector.st = "failed"

\* C2: a hybrid builder is never constructed on a table whose full-text index has
\* not been built: construction fails, before the embedding function is invoked
\* and before a sub-query is dispatched.
C2_HybridInitRequiresIndex ==
    /\ builder.kind = "hybrid" => table.fts_index = "built"
    /\ (out.op = "create" /\ table.fts_index # "built") => ~out.embedded

\* C3: both sub-queries run with row-id inclusion on, whatever the builder calls
\* before the execution were.
C3_SubQueriesRequestRowIds ==
    /\ futs.fts.st = "pending" => builder.fts_query.with_row_id
    /\ futs.vector.st = "pending" => builder.vector_query.with_row_id
    /\ IsComplete(futs.fts) => futs.fts.with_row_id
    /\ IsComplete(futs.vector) => futs.vector.with_row_id

\* both sub-queries have run while the hybrid builder's own flag is off
C3_Witness ==
    /\ builder.kind = "hybrid" /\ ~builder.with_row_id
    /\ futs.fts.st = "ok" /\ futs.vector.st = "ok"
    /\ futs.fts.with_row_id /\ futs.vector.with_row_id

\* C4: the table hybrid to_arrow returns has the _rowid column exactly when the
\* hybrid builder's with_row_id flag is on.
C4_RowIdColumnIffRequested ==
    HybridReturned => ("_rowid" \in out.cols <=> builder.with_row_id)

\* the caller asked for row ids and the sub-query results both carried them
C4_Witness ==
    /\ HybridReturned /\ builder.with_row_id /\ "_rowid" \in out.cols
    /\ Len(out.rows) > 0
    /\ "_rowid" \in futs.fts.tbl.cols /\ "_rowid" \in futs.vector.tbl.cols

\* C5: with limit(k), k > 0, hybrid to_arrow returns the first min(k, n) rows of the
\* n-row reranked table, in reranked order, and so never more than k rows.
C5_LimitTruncatesReranked ==
    (HybridReturned /\ ~IsNone(builder.limit) /\ builder.limit[1] > 0) =>
        LET k == builder.limit[1]
            n == Len(out.results.rows)
        IN  /\ Len(out.rows) = (IF k < n THEN k ELSE n)
            /\ Len(out.rows) <= k
            /\ \A i \in DOMAIN out.rows : out.rows[i] = out.results.rows[i]

\* the two sub-queries together contribute more than k rows
C5_Witness ==
    /\ HybridReturned /\ builder.limit = Some(2)
    /\ Len(futs.fts.tbl.rows) + Len(futs.vector.tbl.rows) > 2
    /\ Len(out.results.rows) = 3 /\ Len(out.rows) = 2

\* C6: on every builder kind limit(None), limit(0) and limit(n), n < 0, remove the
\* limit: the stored limit is None, and the next execution returns every matching
\* row (it fails only when the engine or the index fails).
CollaboratorErrors == {"UpstreamFailure", "ImportError", "FileNotFoundError", "TypeError"}
HasLimit(b) == ~IsNone(b.limit) /\ b.limit[1] > 0
C6_NonPositiveLimitIsUnbounded ==
    /\ builder.kind # "none" => IsNone(builder.limit) \/ builder.limit[1] > 0
    /\ (pc = "done" /\ out.op = "to_arrow" /\ ~HasLimit(builder)) =>
          IF out.kind = "table"
          THEN Len(out.rows) = (IF builder.kind = "hybrid" THEN Len(out.results.rows)
                                ELSE out.matched)
          ELSE out.err \in CollaboratorErrors

(***************************************************************************)
(* Properties of the merge: rerank_hybrid applied to the normalized        *)
(* results of the two sub-queries.                                         *)
(***************************************************************************)
Reranked == fout.stage = "reranked"
MergedIds == RowIdsOf(fout.vector_results) \cup RowIdsOf(fout.fts_results)
\* the two scores a merged row is computed from, the fill on the missing side
DistOf(r) ==
    IF r \in RowIdsOf(fout.vector_results) THEN ValOf(fout.vector_results, r)
    ELSE fout.reranker.fill
ScoreOf(r) ==
    IF r \in RowIdsOf(fout.fts_results) THEN ValOf(fout.fts_results, r)
    ELSE FSub(One, fout.reranker.fill)
JoinPos(r) ==
    LET order == JoinOrder(fout.vector_results, fout.fts_results)
    IN  CHOOSE i \in DOMAIN order : order[i] = r

NoNaNInput ==
    /\ \A x \in Vals(fout.vector_results) : ~IsNaN(x)
    /\ \A x \in Vals(fout.fts_results) : ~IsNaN(x)

\* the end-to-end scenario: vector hits {1, 2}, full-text hits {2, 3}, the default
\* reranker (weight 0.7, fill 1.0) and the default limit 10
Scenario12_23 ==
    /\ Reranked /\ fout.reranker = DefaultReranker
    /\ RowIdsOf(fin.vector_results) = {1, 2}
    /\ RowIdsOf(fin.fts_results) = {2, 3}
ScenarioOutput == ApplyLimit([limit |-> Some(DefaultLimit)], fout.results.rows)
OutPos(r) == CHOOSE i \in DOMAIN ScenarioOutput : ScenarioOutput[i].rowid = r
\* no row is placed before a row with a greater merged score
SortedByRelevance(rows) ==
    \A i, j \in DOMAIN rows : i < j => ~RelBefore(rows[j], rows[i])
WorseRank(a, b) == IF a < b THEN b ELSE a

AscBefore(a, b) == ~IsNaN(a) /\ (IsNaN(b) \/ FLess(a, b))
DescBefore(a, b) == ~IsNaN(a) /\ (IsNaN(b) \/ FLess(b, a))
\* the merged rows are in ascending order of the vector distance, ties in join order
OrderedByDistance(rows) ==
    \A i, j \in DOMAIN rows : i < j =>
        LET a == DistOf(rows[i].rowid)
            b == DistOf(rows[j].rowid)
        IN  \/ AscBefore(a, b)
            \/ (~AscBefore(b, a) /\ JoinPos(rows[i].rowid) < JoinPos(rows[j].rowid))
\* the merged rows are in descending order of the full-text score, ties in join order
OrderedByScore(rows) ==
    \A i, j \in DOMAIN rows : i < j =>
        LET a == ScoreOf(rows[i].rowid)
            b == ScoreOf(rows[j].rowid)
        IN  \/ DescBefore(a, b)
            \/ (~DescBefore(b, a) /\ JoinPos(rows[i].rowid) < JoinPos(rows[j].rowid))
\* C9 as stated: for every pair of normalized inputs (fill 1.0), weight 1.0 orders
\* the merged rows as the normalized vector distance ascending does and weight 0.0
\* as the normalized full-text score descending does.
C9_ExtremeWeightsAreSingleModal ==
    (Reranked /\ fout.reranker.fill = One) =>
        /\ fout.reranker.weight = One => OrderedByDistance(fout.results.rows)
        /\ fout.reranker.weight = Zero => OrderedByScore(fout.results.rows)

\* C9: for every pair of normalized inputs that hold no NaN (fill 1.0), weight 1.0
\* orders the merged rows as the normalized vector distance ascending does and
\* weight 0.0 as the normalized full-text score descending does.
C9_ExtremeWeightsOnNumbers ==
    (Reranked /\ fout.reranker.fill = One /\ NoNaNInput) =>
        /\ fout.reranker.weight = One => OrderedByDistance(fout.results.rows)
        /\ fout.reranker.weight = Zero => OrderedByScore(fout.results.rows)

\* weight 1.0 on two rows the full-text scores order against the vector distances
C9_Witness ==
    /\ Reranked /\ fout.reranker = LinearCombinationReranker(One, One) /\ NoNaNInput
    /\ \E r1, r2 \in RowIdsOf(fout.vector_results) \cap RowIdsOf(fout.fts_results) :
          /\ FLess(DistOf(r1), DistOf(r2)) /\ FLess(ScoreOf(r1), ScoreOf(r2))
          /\ PosOf(fout.results, r1) < PosOf(fout.results, r2)

(***************************************************************************)
(* Properties of _normalize_scores.                                        *)
(***************************************************************************)
Normalized == fin.fn = "_normalize_scores" /\ fout.stage = "returned"
InUnitInterval(x) == IsFinite(x) /\ FLeq(Zero, x) /\ FLeq(x, One)
MinToZeroMaxToOne ==
    \A i \in DOMAIN fin.results.rows :
        /\ InUnitInterval(fout.results.rows[i].val)
        /\ fin.results.rows[i].val[1] = RawMin(fin.results) => fout.results.rows[i].val = Zero
        /\ fin.results.rows[i].val[1] = RawMax(fin.results) => fout.results.rows[i].val = One

\* C10 as stated: for every table of N >= 1 rows, score normalization yields values
\* in [0,1], the rows holding the minimum at 0 and the rows holding the maximum at 1,
\* N = 1 and all-equal scores included.
C10_NormalizedOntoUnitInterval ==
    (Normalized /\ Len(fin.results.rows) >= 1) => MinToZeroMaxToOne

\* C10: for every table of N >= 1 rows whose maximum and minimum are not
\* np.isclose, score normalization yields values in [0,1], the rows holding the
\* minimum at 0 and the rows holding the maximum at 1; when all scores equal one
\* value v (N = 1 included) every row is at 0 if v # 0 and is NaN if v = 0.
C10_NormalizedWhenNotClose ==
    (Normalized /\ Len(fin.results.rows) >= 1) =>
        LET max == RawMax(fin.results)
            min == RawMin(fin.results)
        IN  /\ ~IsClose(max, min) => MinToZeroMaxToOne
            /\ (max = min /\ max # 0) =>
                  \A i \in DOMAIN fout.results.rows : fout.results.rows[i].val = Zero
            /\ (max = min /\ max = 0) =>
                  \A i \in DOMAIN fout.results.rows : IsNaN(fout.results.rows[i].val)

\* three distinct scores, the middle one ends strictly inside the interval
C10_Witness ==
    /\ Normalized /\ Len(fin.results.rows) = 3
    /\ ~IsClose(RawMax(fin.results), RawMin(fin.results))
    /\ \E i, j, k \in 1 .. 3 :
          /\ fout.results.rows[i].val = Zero /\ fout.results.rows[k].val = One
          /\ FLess(Zero, fout.results.rows[j].val) /\ FLess(fout.results.rows[j].val, One)

(***************************************************************************)
(* Properties of the degenerate inputs of _normalize_scores and _rank, and *)
(* of the type check on the reranker's result.                             *)
(***************************************************************************)
AllEqual(t) == Len(t.rows) >= 1 /\ RawMax(t) = RawMin(t)

\* C11: on a table whose scores all equal v, score normalization divides by max
\* (v), not by max - min (0): it returns a table of the same rows in which every
\* value is (v - v) / v, one finite constant (0), when v # 0, and NaN, the value of
\* 0 / 0, when v = 0.
C11_AllEqualDividesByMax ==
    (Normalized /\ AllEqual(fin.results)) =>
        LET v == RawMax(fin.results)
        IN  /\ IsTable(fout.results)
            /\ fout.results.cols = fin.results.cols
            /\ Len(fout.results.rows) = Len(fin.results.rows)
            /\ \A i \in DOMAIN fout.results.rows :
                  /\ fout.results.rows[i].rowid = fin.results.rows[i].rowid
                  /\ fout.results.rows[i].val = Frac(0, v)
                  /\ v # 0 => IsFinite(fout.results.rows[i].val)
                  /\ v = 0 => IsNaN(fout.results.rows[i].val)

\* three rows with the same non-zero score, all normalized to the same number
C11_Witness ==
    /\ Normalized /\ Len(fin.results.rows) = 3 /\ AllEqual(fin.results)
    /\ RawMax(fin.results) = 40
    /\ \A i \in 1 .. 3 : fout.results.rows[i].val = Zero

\* C12: the rank conversion and the score normalization return a zero-row table
\* as it is (same columns, no rows), so a hybrid query one of whose sub-queries
\* has no hits still calls the reranker.
C12_ZeroRowsPassThrough ==
    (HybridDone /\ futs.fts.st = "ok" /\ futs.vector.st = "ok"
       /\ builder.reranker.kind # "None"
       /\ (Len(futs.fts.tbl.rows) = 0 \/ Len(futs.vector.tbl.rows) = 0)) =>
        /\ out.rerank_called
        /\ out.kind = "table" =>
              /\ Len(futs.fts.tbl.rows) = 0 => out.fts_results = futs.fts.tbl
              /\ Len(futs.vector.tbl.rows) = 0 => out.vector_results = futs.vector.tbl

\* rank mode, the index found nothing and the vector query found rows
C12_Witness ==
    /\ HybridReturned /\ builder.norm = "rank"
    /\ Len(futs.fts.tbl.rows) = 0 /\ Len(futs.vector.tbl.rows) = 2
    /\ out.fts_results = Table({"score"}, <<>>)
    /\ out.rerank_called /\ Len(out.rows) = 2

Ranked == fin.fn = "_rank" /\ fout.stage = "returned"
RankOf(i) == fout.results.rows[i].val

\* C13: the rank conversion replaces each score by its 1-based rank in ascending
\* order: the ranks of N rows are a permutation of 1..N, a smaller score has a
\* smaller rank, and of two equal scores the earlier row has the smaller rank.
C13_RanksAscendingStable ==
    Ranked =>
        LET n == Len(fin.results.rows)
        IN  /\ Len(fout.results.rows) = n
            /\ {RankOf(i) : i \in 1 .. n} = {Raw(ScoreUnit * k) : k \in 1 .. n}
            /\ \A i, j \in 1 .. n :
                  /\ fin.results.rows[i].val[1] < fin.results.rows[j].val[1]
                        => RankOf(i)[1] < RankOf(j)[1]
                  /\ (fin.results.rows[i].val[1] = fin.results.rows[j].val[1] /\ i < j)
                        => RankOf(i)[1] < RankOf(j)[1]

\* C14: when rerank_hybrid returns a value that is no table, hybrid to_arrow
\* raises TypeError after the call: no table is returned, nothing is sliced or
\* dropped.
C14_NonTableIsTypeError ==
    (HybridDone /\ futs.fts.st = "ok" /\ futs.vector.st = "ok"
       /\ builder.reranker.kind = "custom") =>
        out = Raise("TypeError", TRUE)

\* both sub-queries returned rows and the custom reranker returned no table
C14_Witness ==
    /\ HybridDone /\ builder.reranker = CustomReranker
    /\ futs.fts.st = "ok" /\ futs.vector.st = "ok"
    /\ Len(futs.fts.tbl.rows) > 0 /\ Len(futs.vector.tbl.rows) > 0
    /\ out.kind = "raise" /\ out.err = "TypeError"

(***************************************************************************)
(* Properties of LanceQueryBuilder.create: the resolution of the query     *)
(* type and the validation of a hybrid query.  out.call holds the          *)
(* arguments of the call that has returned or raised.                      *)
(***************************************************************************)
Created == pc = "done" /\ out.op = "create"
Resolved ==
    ResolveQuery(out.call.conf, out.call.query, out.call.query_type, out.call.embed_ok)
\* create resolves the query type: the query is present and the type is not "hybrid"
Resolves == Created /\ out.call.query # "None" /\ out.call.query_type # "hybrid"

\* C15: under "auto" a vector-like query (list, array, pyarrow array) resolves to
\* "vector" unchanged and without an embedding call, a tuple to "hybrid", a string
\* to "vector" through the bound embedding function, and to "fts" unchanged when
\* no function is bound.
C15_AutoResolution ==
    (Resolves /\ out.call.query_type = "auto") =>
        LET q == out.call.query
        IN  /\ IsVectorLike(q) =>
                  /\ Resolved.status = "ok" /\ Resolved.query_type = "vector"
                  /\ Resolved.query = q /\ ~out.embedded
                  /\ out.kind = "created" /\ builder.kind = "vector"
            /\ IsTuple(q) => Resolved.status = "ok" /\ Resolved.query_type = "hybrid"
            /\ (IsStr(q) /\ out.call.conf # "None" /\ out.call.embed_ok) =>
                  /\ Resolved.query_type = "vector" /\ out.embedded
                  /\ out.kind = "created" /\ builder.kind = "vector"
            /\ (IsStr(q) /\ out.call.conf = "None") =>
                  /\ Resolved.query_type = "fts" /\ Resolved.query = q /\ ~out.embedded
                  /\ out.kind = "created" /\ builder.kind = "fts"

\* C16: under "vector" a list or array query is passed through unchanged with no
\* embedding call, bound function or not; any other query is embedded with the
\* bound function, and without a bound function create raises ValueError and makes
\* no builder.
C16_VectorResolution ==
    (Resolves /\ out.call.query_type = "vector") =>
        LET q == out.call.query
        IN  /\ IsListOrArray(q) =>
                  /\ Resolved.status = "ok" /\ Resolved.query = q /\ ~out.embedded
                  /\ out.kind = "created" /\ builder.kind = "vector"
            /\ (~IsListOrArray(q) /\ out.call.conf # "None") =>
                  /\ out.embedded
                  /\ out.call.embed_ok =>
                        /\ Resolved.status = "ok" /\ Resolved.query = "ndarray"
                        /\ out.kind = "created" /\ builder.kind = "vector"
                  /\ ~out.call.embed_ok => out.kind = "raise" /\ builder = NoBuilder
            /\ (~IsListOrArray(q) /\ out.call.conf = "None") =>
                  /\ out.kind = "raise" /\ out.err = "ValueError"
                  /\ ~out.embedded /\ builder = NoBuilder

\* a string under "vector" on a column with no embedding function
C16_Witness ==
    /\ Resolves /\ out.call.query_type = "vector" /\ out.call.query = "str"
    /\ out.call.conf = "None"
    /\ out.kind = "raise" /\ out.err = "ValueError" /\ builder = NoBuilder

\* the shapes a hybrid query may have: a string, a pair (vector-like, string)
HybridShape(q) == q \in {"str", "tuple_vec_str", "tuple_pa_str"}
\* create constructs a hybrid builder: type "hybrid", or "auto" with a tuple
HybridPath ==
    /\ Created /\ out.call.query # "None"
    /\ \/ out.call.query_type = "hybrid"
       \/ out.call.query_type = "auto" /\ IsTuple(out.call.query)

\* C17: a hybrid builder is constructed only from a string or a pair
\* (vector-like, string); for every other present query, under "hybrid" or under
\* "auto" with a tuple, create raises ValueError with no sub-builder constructed
\* and no embedding call made.
C17_HybridShapeValidated ==
    HybridPath =>
        /\ (out.kind = "created" /\ builder.kind = "hybrid") => HybridShape(out.call.query)
        /\ ~HybridShape(out.call.query) =>
              /\ out.kind = "raise" /\ out.err = "ValueError"
              /\ ~out.fts_created /\ ~out.embedded /\ builder = NoBuilder

\* a pair of strings under "auto", on a table with an index and a bound function
C17_Witness ==
    /\ HybridPath /\ out.call.query_type = "auto" /\ out.call.query = "tuple_str_str"
    /\ table.fts_index = "built" /\ out.call.conf = "conf"
    /\ out.kind = "raise" /\ out.err = "ValueError" /\ ~out.embedded

(***************************************************************************)
(* Properties of to_pandas and of LanceHybridQueryBuilder.rerank.          *)
(***************************************************************************)
\* C18: to_pandas(flatten = n) with an integer n <= 0 raises the ValueError
\* without the query having been executed: to_arrow has not been called.
C18_FlattenValidatedBeforeExecution ==
    (pc = "done" /\ out.op = "to_pandas" /\ out.kind = "raise"
       /\ out.err = "ValueError" /\ "flatten" \in DOMAIN out) =>
        out.to_arrow = NoOutcome

RerankRaised == pc = "done" /\ out.op = "rerank" /\ out.kind = "raise"

\* C19: rerank(normalize = m) with m outside {"rank", "score"} raises ValueError
\* and leaves the builder as it was: a hybrid builder's normalization mode is
\* always "rank" or "score", and a rerank call that raises changes no field of it.
C19_InvalidNormalizeRejected ==
    [][/\ builder'.kind = "hybrid" => builder'.norm \in {"rank", "score"}
       /\ (out'.op = "rerank" /\ out.op # "rerank") =>
             /\ out'.kind = "raise" /\ out'.err = "ValueError"
             /\ builder' = builder]_vars

\* an unknown mode is refused on a builder set to rank mode and a custom reranker
C19_Witness ==
    /\ RerankRaised /\ out.err = "ValueError"
    /\ out.call.normalize = "zscore" /\ out.call.reranker = DefaultReranker
    /\ builder.norm = "rank" /\ builder.reranker = CustomReranker

\* C20: a hybrid builder's reranker is always a Reranker instance: rerank() with a
\* value that is none, None included, raises ValueError and installs nothing.
C20_RerankerIsAlwaysInstance ==
    builder.kind = "hybrid" => IsRerankerInstance(builder.reranker)

(***************************************************************************)
(* C21: a full-text query on a table whose full-text index does not exist  *)
(* fails with an error raised before the index is opened or searched, as   *)
(* a query of its own and as the full-text task of a hybrid query; it      *)
(* never returns a table.                                                  *)
(***************************************************************************)
\* the errors to_arrow raises before tantivy.Index.open: the failed import, the
\* path that cannot be built, the path that does not exist
RaisedBeforeOpen == {"ImportError", "TypeError", "FileNotFoundError"}
FtsDone == builder.kind = "fts" /\ pc = "done" /\ out.op = "to_arrow"

C21_AbsentIndexIsAnError ==
    table.fts_index # "built" =>
        /\ FtsDone => out.kind = "raise" /\ out.err \in RaisedBeforeOpen
        /\ IsComplete(futs.fts) =>
               futs.fts.st = "failed" /\ futs.fts.err \in RaisedBeforeOpen

C21_Witness ==
    /\ table.fts_index = "absent" /\ FtsDone
    /\ out.kind = "raise" /\ out.err = "FileNotFoundError"

(***************************************************************************)
(* C22: in hybrid to_arrow both tasks are submitted before the             *)
(* orchestrator blocks on a result; a submitted task can run whatever the  *)
(* state of the other one; the orchestrator does not pass a result() call  *)
(* whose task is still running, so the stages from normalization on run    *)
(* only when both tasks have completed.                                    *)
(***************************************************************************)
Submitted(f) == f.st # "none"
Blocking == pc \in {"fts_result", "vector_result", "exit_raise"}

C22_DualDispatch ==
    /\ Blocking => Submitted(futs.fts) /\ Submitted(futs.vector)
    /\ futs.fts.st = "pending" => ENABLED RunFts
    /\ futs.vector.st = "pending" => ENABLED RunVector
    /\ (pc = "fts_result" /\ ~IsComplete(futs.fts)) => ~ENABLED FtsResult
    /\ (pc = "vector_result" /\ ~IsComplete(futs.vector)) => ~ENABLED VectorResult
    /\ pc = "vector_result" => futs.fts.st = "ok"
    /\ HybridDone => IsComplete(futs.fts) /\ IsComplete(futs.vector)
    /\ HybridDone /\ (out.kind = "table" \/ out.rerank_called) =>
           futs.fts.st = "ok" /\ futs.vector.st = "ok"

\* the vector task has run to its end while the full-text task is still running
\* and the orchestrator waits for it
C22_Witness ==
    /\ pc = "fts_result" /\ futs.fts.st = "pending" /\ futs.vector.st = "ok"

(***************************************************************************)
(* Object identity.  Two hybrid builders over one table; every object is   *)
(* an identifier taken from a counter, so that two fields holding the      *)
(* same object are told from two fields holding equal values.  Here        *)
(* `table` is the allocator, `builder` and `pc` are indexed by the builder.*)
(***************************************************************************)
MaxObjects == 11
BuilderIds == {1, 2}

\* the value of the default argument `reranker` of LanceHybridQueryBuilder.rerank:
\* the expression is evaluated once, when the def statement runs
DefaultArgReranker == 0

\* LanceHybridQueryBuilder.__init__: the builder, its two sub-builders and its
\* reranker are constructed here
NewHybrid(next) ==
    [kind |-> "hybrid", self |-> next, fts_query |-> next + 1,
     vector_query |-> next + 2, reranker |-> next + 3]

ObjectsOf(b) ==
    IF b = NoBuilder THEN {}
    ELSE {b.self, b.fts_query, b.vector_query, b.reranker}

InitShare ==
    /\ table = [next |-> 1]
    /\ builder = [i \in BuilderIds |-> NoBuilder]
    /\ pc = [i \in BuilderIds |-> "idle"]
    /\ futs = NoFuts
    /\ out = NoOutcome
    /\ FnUnused

\* table.search(query, query_type="hybrid")
ShareCreate(i) ==
    /\ pc[i] = "idle" /\ table.next + 3 <= MaxObjects
    /\ builder' = [builder EXCEPT ![i] = NewHybrid(table.next)]
    /\ table' = [next |-> table.next + 4]
    /\ UNCHANGED <<pc, futs, out>> /\ FnUnchanged

\* builder.rerank(): self._reranker = reranker, the default argument
ShareRerankDefault(i) ==
    /\ pc[i] = "idle" /\ builder[i] # NoBuilder
    /\ builder' = [builder EXCEPT ![i].reranker = DefaultArgReranker]
    /\ UNCHANGED <<table, pc, futs, out>> /\ FnUnchanged

\* builder.rerank(reranker=R(...)), the caller constructing the argument
ShareRerankWith(i) ==
    /\ pc[i] = "idle" /\ builder[i] # NoBuilder /\ table.next <= MaxObjects
    /\ builder' = [builder EXCEPT ![i].reranker = table.next]
    /\ table' = [next |-> table.next + 1]
    /\ UNCHANGED <<pc, futs, out>> /\ FnUnchanged

\* builder.to_arrow() entered, and left
ShareToArrow(i) ==
    /\ pc[i] = "idle" /\ builder[i] # NoBuilder
    /\ pc' = [pc EXCEPT ![i] = "running"]
    /\ UNCHANGED <<table, builder, futs, out>> /\ FnUnchanged

ShareReturn(i) ==
    /\ pc[i] = "running"
    /\ pc' = [pc EXCEPT ![i] = "idle"]
    /\ UNCHANGED <<table, builder, futs, out>> /\ FnUnchanged

NextShare ==
    \E i \in BuilderIds :
        \/ ShareCreate(i) \/ ShareRerankDefault(i) \/ ShareRerankWith(i)
        \/ ShareToArrow(i) \/ ShareReturn(i)

SpecShare == InitShare /\ [][NextShare]_vars

(***************************************************************************)
(* C23: two distinct hybrid builders hold no object in common, whatever    *)
(* builder calls were made on each, rerank() without arguments included;   *)
(* in particular two executions running at the same time hold distinct     *)
(* rerankers.                                                              *)
(***************************************************************************)
C23_NoSharedObjects ==
    \A i, j \in BuilderIds :
        i # j => ObjectsOf(builder[i]) \cap ObjectsOf(builder[j]) = {}

(***************************************************************************)
(* The mock rate-limited embedding API of the test suite.  Time is in      *)
(* ticks; time.time() reads `fin.time`.  `fin.api` is the MockEmbeddingAPI *)
(* object; `fout` keeps the last call and what the calls so far did: the   *)
(* times of the successful calls, and how many succeeded since             *)
(* window_start_time was last assigned.                                    *)
(***************************************************************************)
MaxTime == 5
MaxCalls == 4
RateLimits == {0, 1, 2}
TimeUnits == {1, 2}

\* MockEmbeddingAPI.__init__ at time now
MockEmbeddingAPI(rate_limit, time_unit, now) ==
    [rate_limit |-> rate_limit, time_unit |-> time_unit,
     request_count |-> 0, window_start_time |-> now]

\* (a rejected request counted as a request)
MockEmbedCountsRejected(api, current_time) ==
    IF api.rate_limit = 0
    THEN [api |-> api, raised |-> FALSE, computed |-> TRUE, reset |-> FALSE]
    ELSE LET reset == current_time - api.window_start_time > api.time_unit
             a == IF reset
                  THEN [api EXCEPT !.window_start_time = current_time,
                                   !.request_count = 0]
                  ELSE api
         IN  [api |-> [a EXCEPT !.request_count = @ + 1],
              raised |-> ~(a.request_count < a.rate_limit),
              computed |-> a.request_count < a.rate_limit, reset |-> reset]

\* MockEmbeddingAPI.embed(texts) at time current_time
MockEmbed(api, current_time) ==
    IF api.rate_limit = 0
    THEN [api |-> api, raised |-> FALSE, computed |-> TRUE, reset |-> FALSE]
    ELSE LET reset == current_time - api.window_start_time > api.time_unit
             a == IF reset
                  THEN [api EXCEPT !.window_start_time = current_time,
                                   !.request_count = 0]
                  ELSE api
         IN  IF a.request_count < a.rate_limit
             THEN [api |-> [a EXCEPT !.request_count = @ + 1],
                   raised |-> FALSE, computed |-> TRUE, reset |-> reset]
             ELSE [api |-> a, raised |-> TRUE, computed |-> FALSE, reset |-> reset]

NoCall == [kind |-> "none"]

InitRate ==
    /\ BuilderUnused
    /\ \E rate_limit \in RateLimits, time_unit \in TimeUnits :
          fin = [api |-> MockEmbeddingAPI(rate_limit, time_unit, 0), time |-> 0]
    /\ fout = [stage |-> "api", last |-> NoCall, succeeded |-> <<>>,
               window_calls |-> 0, calls |-> 0]

\* time passes between two calls
Tick ==
    /\ fin.time < MaxTime
    /\ fin' = [fin EXCEPT !.time = @ + 1]
    /\ UNCHANGED fout /\ BuilderUnchanged

\* one call of embed, returning or raising
EmbedCall ==
    /\ fout.calls < MaxCalls
    /\ LET r == MockEmbed(fin.api, fin.time)
           in_window == IF r.reset THEN 0 ELSE fout.window_calls
       IN  /\ fin' = [fin EXCEPT !.api = r.api]
           /\ fout' = [stage |-> "api",
                       last |-> [kind |-> IF r.raised THEN "raise" ELSE "return",
                                 err |-> IF r.raised THEN "429" ELSE "none",
                                 computed |-> r.computed, time |-> fin.time,
                                 reset |-> r.reset, before |-> fin.api,
                                 window_calls |-> in_window],
                       succeeded |-> IF r.raised THEN fout.succeeded
                                     ELSE Append(fout.succeeded, fin.time),
                       window_calls |-> IF r.raised THEN in_window
                                        ELSE in_window + 1,
                       calls |-> fout.calls + 1]
    /\ BuilderUnchanged

NextRate == Tick \/ EmbedCall
SpecRate == InitRate /\ [][NextRate]_vars

(***************************************************************************)
(* C24: with rate_limit r > 0, request_count never exceeds r, and a call   *)
(* made when r calls have already succeeded in the current window, and     *)
(* within that window, raises "429" without computing embeddings and       *)
(* leaves request_count and window_start_time as they were; with           *)
(* rate_limit = 0 no call raises.                                          *)
(***************************************************************************)
Called == fout.last.kind # "none"
\* the last call found the window full and was made within it
WindowWasFull ==
    /\ Called /\ ~fout.last.reset
    /\ fout.last.window_calls = fin.api.rate_limit

C24_RateLimitHolds ==
    /\ fin.api.rate_limit > 0 =>
          /\ fin.api.request_count <= fin.api.rate_limit
          /\ WindowWasFull =>
                /\ fout.last.kind = "raise" /\ fout.last.err = "429"
                /\ ~fout.last.computed
                /\ fin.api.request_count = fout.last.before.request_count
                /\ fin.api.window_start_time = fout.last.before.window_start_time
    /\ fin.api.rate_limit = 0 => (Called => fout.last.kind = "return")

C24_Witness ==
    /\ fin.api.rate_limit = 2 /\ WindowWasFull
    /\ fout.last.kind = "raise" /\ fin.api.request_count = 2

(***************************************************************************)
(* C25: with rate_limit r > 0, no time interval of length time_unit        *)
(* contains more than r successful embed calls, whatever the times of the  *)
(* calls.                                                                  *)
(***************************************************************************)
\* the successful calls made in [t, t + time_unit)
SucceededIn(t) ==
    {i \in DOMAIN fout.succeeded :
        t <= fout.succeeded[i] /\ fout.succeeded[i] < t + fin.api.time_unit}

C25_NoIntervalOverLimit ==
    fin.api.rate_limit > 0 =>
        \A t \in 0..MaxTime : Cardinality(SucceededIn(t)) <= fin.api.rate_limit

(***************************************************************************)
(* The full-text executor from the index search to the returned table,     *)
(* with its filter.  A hit is a row id and a score; the row the dataset    *)
(* holds under row id r is written r; a filter predicate is the set of     *)
(* rows that satisfy it.  A returned row is the dataset row, its score     *)
(* column and its _rowid column (0 when the column is absent).             *)
(***************************************************************************)
\* what search_index returns: distinct row ids, best score first
HitScore(i) == 10 - i
Hits ==
    {[i \in DOMAIN ids |-> [rowid |-> ids[i], score |-> HitScore(i)]] :
       ids \in IdSeqs(MaxHits)}
Predicates == SUBSET RowIds

\* self._table.to_lance().take(row_ids, columns).append_column("score", scores)
TakeWithScores(hits) ==
    [i \in DOMAIN hits |-> [row |-> hits[i].rowid, score |-> hits[i].score]]

\* row_ids = pa.array(row_ids, type=pa.uint64())
RowIdArray(hits) == [i \in DOMAIN hits |-> hits[i].rowid]

\* output_tbl.append_column(tmp_name, pa.array(range(len(output_tbl))))
AppendIndexer(tbl) ==
    [i \in DOMAIN tbl |-> [row |-> tbl[i].row, score |-> tbl[i].score, tmp |-> i - 1]]

\* the rows of tbl that satisfy the predicate, in any order: neither the SQL
\* query nor the dataset scan is ordered
Filtered(tbl, sat) ==
    LET keep == {i \in DOMAIN tbl : tbl[i].row \in sat}
    IN  {[k \in 1 .. Cardinality(keep) |-> tbl[f[k]]] :
           f \in {g \in [1 .. Cardinality(keep) -> keep] :
                    \A a, b \in 1 .. Cardinality(keep) : a # b => g[a] # g[b]}}

\* the tmp column of a table
IndexerOf(tbl) == [k \in DOMAIN tbl |-> tbl[k].tmp]

\* Table.take(indexer).drop([tmp_name]), indices counted from 0
TableTake(tbl, indexer) ==
    [k \in DOMAIN indexer |->
        [row |-> tbl[indexer[k] + 1].row, score |-> tbl[indexer[k] + 1].score]]

\* (the row ids cut to the length of the filtered table)
TakeRowIdsPrefix(row_ids, indexer) == SubSeq(row_ids, 1, Len(indexer))
\* row_ids = row_ids.take(indexer)
TakeRowIds(row_ids, indexer) == [k \in DOMAIN indexer |-> row_ids[indexer[k] + 1]]

\* the duckdb branch
FilterInMemory(tbl, row_ids, sat) ==
    {[tbl |-> TableTake(tbl, IndexerOf(f)), row_ids |-> TakeRowIds(row_ids, IndexerOf(f))] :
       f \in Filtered(tbl, sat)}

\* the except ImportError branch: write the table out, read it back filtered
FilterByDataset(tbl, row_ids, sat) ==
    {[tbl |-> [k \in DOMAIN f |-> [row |-> f[k].row, score |-> f[k].score]],
      row_ids |-> TakeRowIds(row_ids, IndexerOf(f))] :
       f \in Filtered(tbl, sat)}

\* if self._with_row_id: output_tbl.append_column("_rowid", row_ids)
AttachRowId(tbl, row_ids, with_row_id) ==
    [k \in DOMAIN tbl |->
        [row |-> tbl[k].row, score |-> tbl[k].score,
         rowid |-> IF with_row_id THEN row_ids[k] ELSE 0]]

\* LanceFtsQueryBuilder.to_arrow from search_index on, without a reranker
FtsOutput(hits, where, with_row_id, duckdb) ==
    IF Len(hits) = 0 THEN {Table({"score"}, <<>>)}
    ELSE LET tbl == TakeWithScores(hits)
             row_ids == RowIdArray(hits)
             kept == IF IsNone(where) THEN {[tbl |-> tbl, row_ids |-> row_ids]}
                     ELSE IF duckdb
                     THEN FilterInMemory(AppendIndexer(tbl), row_ids, where[1])
                     ELSE FilterByDataset(AppendIndexer(tbl), row_ids, where[1])
         IN  {Table(FtsCols(with_row_id), AttachRowId(k.tbl, k.row_ids, with_row_id)) :
                k \in kept}

InitFilter ==
    /\ BuilderUnused
    /\ fin \in [hits : Hits, where : {None} \cup {Some(sat) : sat \in Predicates},
                 with_row_id : BOOLEAN, duckdb : BOOLEAN]
    /\ fout = [stage |-> "searched"]

FtsReturn ==
    /\ fout.stage = "searched"
    /\ \E t \in FtsOutput(fin.hits, fin.where, fin.with_row_id, fin.duckdb) :
          fout' = [stage |-> "returned", cols |-> t.cols, rows |-> t.rows]
    /\ UNCHANGED fin /\ BuilderUnchanged

NextFilter == FtsReturn
SpecFilter == InitFilter /\ [][NextFilter]_vars

(***************************************************************************)
(* C26: with a filter predicate, on the in-memory path and on the          *)
(* temporary-dataset path, every returned row is a hit that satisfies the  *)
(* predicate, and its score and its _rowid are the ones the index          *)
(* returned for that hit.                                                  *)
(***************************************************************************)
FtsReturned == fout.stage = "returned"
IsHitOf(x) ==
    \E i \in DOMAIN fin.hits :
        /\ fin.hits[i].rowid = x.row
        /\ fin.hits[i].score = x.score
        /\ "_rowid" \in fout.cols => x.rowid = fin.hits[i].rowid

C26_FilterKeepsAlignment ==
    FtsReturned /\ ~IsNone(fin.where) =>
        \A k \in DOMAIN fout.rows :
            fout.rows[k].row \in fin.where[1] /\ IsHitOf(fout.rows[k])

\* on the temporary-dataset path the best hit is filtered out and the second kept
C26_Witness ==
    /\ FtsReturned /\ ~IsNone(fin.where) /\ ~fin.duckdb /\ fin.with_row_id
    /\ Len(fin.hits) = 2 /\ Len(fout.rows) = 1
    /\ fout.rows[1].rowid = fin.hits[2].rowid

(***************************************************************************)
(* C29: with row-id inclusion on, the table the full-text executor         *)
(* returns has a _rowid column, also when the index returns no match; so   *)
(* the full-text table the hybrid orchestrator receives from its task      *)
(* carries the join key.                                                   *)
(***************************************************************************)
C29_FtsTableCarriesRowId ==
    /\ (FtsDone /\ out.kind = "table" /\ builder.with_row_id) =>
           "_rowid" \in out.cols
    /\ (builder.kind = "hybrid" /\ futs.fts.st = "ok") =>
           "_rowid" \in futs.fts.tbl.cols

(***************************************************************************)
(* The builders with all their settings.  `builder` is a hybrid builder    *)
(* with its two sub-builders, or a vector builder; `out` is the last call  *)
(* with the builder as it was before the call.                             *)
(***************************************************************************)
\* LanceFtsQueryBuilder.__init__
LanceFtsQueryBuilder ==
    [kind |-> "fts", limit |-> Some(DefaultLimit), columns |-> None, where |-> None,
     with_row_id |-> FALSE, phrase_query |-> FALSE, reranker |-> NoReranker]

\* LanceVectorQueryBuilder.__init__; str_query is "None" or "str"
LanceVectorQueryBuilder(str_query) ==
    [kind |-> "vector", limit |-> Some(DefaultLimit), columns |-> None, where |-> None,
     with_row_id |-> FALSE, metric |-> "L2", nprobes |-> 20, refine_factor |-> None,
     prefilter |-> FALSE, reranker |-> NoReranker, str_query |-> str_query]

\* LanceHybridQueryBuilder.__init__
LanceHybridQueryBuilder ==
    [kind |-> "hybrid", limit |-> Some(DefaultLimit), columns |-> None, where |-> None,
     with_row_id |-> FALSE, fts_query |-> LanceFtsQueryBuilder,
     vector_query |-> LanceVectorQueryBuilder("None"),
     norm |-> "score", reranker |-> DefaultReranker]

\* arguments of select: two lists, a dict, and a plain string
ColumnArgs ==
    {[type |-> "list", names |-> {"text"}], [type |-> "list", names |-> {"text", "vector"}],
     [type |-> "dict", names |-> {"text"}], [type |-> "str", names |-> {"text"}]}
WhereArgs == {"id > 1", "id < 3"}
MetricArgs == {"L2", "cosine"}
NprobesArgs == {10, 20}
RefineFactorArgs == {1, 5}

\* LanceQueryBuilder.select
SelectRaises(columns) == columns.type \notin {"list", "dict"}
BaseSelect(b, columns) == [b EXCEPT !.columns = Some(columns)]

\* LanceQueryBuilder.where and LanceVectorQueryBuilder.where
BaseWhere(b, where) == [b EXCEPT !.where = Some(where)]
VectorWhere(b, where, prefilter) ==
    [b EXCEPT !.where = Some(where), !.prefilter = prefilter]

\* LanceHybridQueryBuilder.select
HybridSelect(b, columns) ==
    [b EXCEPT !.vector_query = BaseSelect(@, columns),
              !.fts_query = BaseSelect(@, columns)]

\* (the filter given to the vector sub-builder alone)
HybridWhereVectorOnly(b, where, prefilter) ==
    [b EXCEPT !.vector_query = VectorWhere(@, where, prefilter)]
\* LanceHybridQueryBuilder.where
HybridWhere(b, where, prefilter) ==
    [b EXCEPT !.vector_query = VectorWhere(@, where, prefilter),
              !.fts_query = BaseWhere(@, where)]

\* LanceHybridQueryBuilder.metric, nprobes, refine_factor
HybridMetric(b, metric) == [b EXCEPT !.vector_query.metric = metric]
HybridNprobes(b, nprobes) == [b EXCEPT !.vector_query.nprobes = nprobes]
HybridRefineFactor(b, refine_factor) ==
    [b EXCEPT !.vector_query.refine_factor = Some(refine_factor)]

\* LanceVectorQueryBuilder.rerank(reranker, query_string); query_string is
\* "None", "str" or "int"
QueryStringArgs == {"None", "str", "int"}
VectorRerankRaises(b, query_string) ==
    \/ b.str_query = "None" /\ query_string = "None"
    \/ query_string # "None" /\ query_string # "str"
VectorRerank(b, reranker, query_string) ==
    LET installed == [b EXCEPT !.reranker = reranker]
    IN  IF VectorRerankRaises(b, query_string) THEN installed
        ELSE [installed EXCEPT
                !.str_query = IF query_string # "None" THEN query_string ELSE @]

\* LanceVectorQueryBuilder.to_arrow after _execute_query: whether rerank_vector
\* is called, and with which query string
VectorRerankStep(b) ==
    [rerank_vector_called |-> b.reranker # NoReranker, query_string |-> b.str_query]

Call(op, kind, before) == [op |-> op, kind |-> kind, before |-> before]

InitConfig ==
    /\ table = NoTable /\ pc = Idle /\ futs = NoFuts /\ FnUnused
    /\ builder \in {LanceHybridQueryBuilder, LanceVectorQueryBuilder("None"),
                     LanceVectorQueryBuilder("str")}
    /\ out = Call("create", "return", builder)

ConfigUnchanged == UNCHANGED <<table, pc, futs>> /\ FnUnchanged

ConfigLimit ==
    /\ builder.kind = "hybrid"
    /\ \E limit \in LimitArgs : builder' = HybridLimit(builder, limit)
    /\ out' = Call("limit", "return", builder)
    /\ ConfigUnchanged

ConfigSelect ==
    /\ builder.kind = "hybrid"
    /\ \E columns \in ColumnArgs :
          IF SelectRaises(columns)
          THEN UNCHANGED builder /\ out' = Call("select", "raise", builder)
          ELSE /\ builder' = HybridSelect(builder, columns)
               /\ out' = Call("select", "return", builder)
    /\ ConfigUnchanged

ConfigWhere ==
    /\ builder.kind = "hybrid"
    /\ \E where \in WhereArgs, prefilter \in BOOLEAN :
          builder' = HybridWhere(builder, where, prefilter)
    /\ out' = Call("where", "return", builder)
    /\ ConfigUnchanged

ConfigMetric ==
    /\ builder.kind = "hybrid"
    /\ \E metric \in MetricArgs : builder' = HybridMetric(builder, metric)
    /\ out' = Call("metric", "return", builder)
    /\ ConfigUnchanged

ConfigNprobes ==
    /\ builder.kind = "hybrid"
    /\ \E nprobes \in NprobesArgs : builder' = HybridNprobes(builder, nprobes)
    /\ out' = Call("nprobes", "return", builder)
    /\ ConfigUnchanged

ConfigRefineFactor ==
    /\ builder.kind = "hybrid"
    /\ \E refine_factor \in RefineFactorArgs :
          builder' = HybridRefineFactor(builder, refine_factor)
    /\ out' = Call("refine_factor", "return", builder)
    /\ ConfigUnchanged

ConfigVectorRerank ==
    /\ builder.kind = "vector"
    /\ \E reranker \in {CustomReranker, DefaultReranker},
          query_string \in QueryStringArgs :
          /\ builder' = VectorRerank(builder, reranker, query_string)
          /\ out' = Call("rerank",
                         IF VectorRerankRaises(builder, query_string)
                         THEN "raise" ELSE "return", builder)
    /\ ConfigUnchanged

ConfigVectorToArrow ==
    /\ builder.kind = "vector"
    /\ out' = [op |-> "to_arrow", kind |-> "return", before |-> builder,
               rerank |-> VectorRerankStep(builder)]
    /\ UNCHANGED builder /\ ConfigUnchanged

NextConfig ==
    \/ ConfigLimit \/ ConfigSelect \/ ConfigWhere
    \/ ConfigMetric \/ ConfigNprobes \/ ConfigRefineFactor
    \/ ConfigVectorRerank \/ ConfigVectorToArrow
SpecConfig == InitConfig /\ [][NextConfig]_vars

(***************************************************************************)
(* C27: after any limit, select and where calls on a hybrid builder the    *)
(* two sub-builders hold the same limit, column projection and filter;     *)
(* a metric, nprobes or refine_factor call changes nothing but the vector  *)
(* sub-builder.                                                            *)
(***************************************************************************)
VectorOnlyCalls == {"metric", "nprobes", "refine_factor"}

C27_SubBuildersAgree ==
    builder.kind = "hybrid" =>
        /\ builder.vector_query.limit = builder.fts_query.limit
        /\ builder.vector_query.columns = builder.fts_query.columns
        /\ builder.vector_query.where = builder.fts_query.where
        /\ out.op \in VectorOnlyCalls =>
               builder = [out.before EXCEPT !.vector_query = builder.vector_query]

\* a filter and a projection are set on both, after a vector-only call
C27_Witness ==
    /\ builder.kind = "hybrid" /\ out.op = "metric"
    /\ builder.vector_query.metric = "cosine" /\ out.before.vector_query.metric = "L2"
    /\ builder.fts_query.where = Some("id > 1")
    /\ ~IsNone(builder.fts_query.columns) /\ IsNone(builder.fts_query.limit)

(***************************************************************************)
(* C28: a rerank() call on a vector builder that raises ValueError leaves  *)
(* the builder as it was, so no reranker is installed by it and a later    *)
(* to_arrow never calls rerank_vector with an absent query string.         *)
(***************************************************************************)
C28_FailedRerankChangesNothing ==
    builder.kind = "vector" =>
        /\ (out.op = "rerank" /\ out.kind = "raise") => builder = out.before
        /\ out.op = "to_arrow" =>
               ~(out.rerank.rerank_vector_called /\ out.rerank.query_string = "None")

====
